---- MODULE Spec2Model ----
(***************************************************************************)
(* BrightSky weather integration: the data update coordinator              *)
(* (weather_update_coordinator.py), its daily aggregation, and the config  *)
(* entry set-up (__init__.py).                                             *)
(*                                                                         *)
(* Python values: an optional value (a dict key that is missing or null)   *)
(* is None == <<>> or Some(x) == <<x>>.  A timestamp string is a record    *)
(* [form, date, hour]; form tells how the text is written: "Z" and         *)
(* "offset" are ISO-8601 texts with a Z suffix or an explicit offset,      *)
(* "bad" is any text datetime.fromisoformat rejects, "empty" is "".        *)
(***************************************************************************)
EXTENDS Integers, Sequences, FiniteSets, TLC

VARIABLES
    pc,             \* position of the one _async_update_data call: "idle", "current", "forecast"
    current_data,   \* local current_data of the call in flight
    data,           \* coordinator.data: None, or Some([current, forecast])
    connect_error,  \* coordinator._connect_error
    log,            \* entries written to _LOGGER by the coordinator, oldest first
    hist,           \* history: one record per finished _async_update_data call
    requests,       \* history: the GET requests the coordinator issued, oldest first
    setup_pc,       \* position of async_setup_entry
    hass_data,      \* hass.data[DOMAIN].get(entry_id): None or Some(record)
    platforms,      \* the sensor and weather platforms were forwarded for set-up
    update_listener, \* the update listener is registered
    unsub_calls,    \* calls of the unsubscribe callback the last add_update_listener returned
    unload_ok,      \* what the last async_unload_entry returned, None before it
    hash_order,     \* this process's iteration order of a set of str (hash seed)
    daily_days,     \* argument of the last get_daily_forecast call, None before it
    daily_result,   \* its result
    observed,       \* the last read of a sensor or weather entity: None or Some([fn, key, out])
    entry,          \* the config entry's scan interval in entry.options and entry.data
    update_interval \* coordinator.update_interval in seconds, None before there is a coordinator

vars == <<pc, current_data, data, connect_error, log, hist, requests, setup_pc, hass_data,
          platforms, update_listener, unsub_calls, unload_ok, hash_order, daily_days, daily_result,
          observed, entry, update_interval>>

coordVars == <<pc, current_data, data, connect_error, log, hist, requests>>
setupVars == <<setup_pc, hass_data, platforms, update_listener, unsub_calls, unload_ok>>
dailyVars == <<daily_days, daily_result>>
entityVars == <<observed>>
configVars == <<entry, update_interval>>

(***************************************************************************)
(* Bounds of the model.                                                    *)
(***************************************************************************)
MaxRefresh == 4
MaxHours == 3
MaxDays == 3

(***************************************************************************)
(* Python helpers.                                                         *)
(***************************************************************************)
None == <<>>

Some(x) == <<x>>

Val(o) == o[1]

\* bool(x) of an optional string: None and "" are falsy.
Truthy(o) == o # None /\ Val(o) # ""

Range(s) == {s[i] : i \in DOMAIN s}

RECURSIVE SeqSum(_)
SeqSum(s) == IF s = <<>> THEN 0 ELSE Head(s) + SeqSum(Tail(s))

RECURSIVE SeqMin(_)
SeqMin(s) ==
    IF Len(s) = 1 THEN s[1]
    ELSE LET m == SeqMin(Tail(s)) IN IF s[1] <= m THEN s[1] ELSE m

RECURSIVE SeqMax(_)
SeqMax(s) ==
    IF Len(s) = 1 THEN s[1]
    ELSE LET m == SeqMax(Tail(s)) IN IF s[1] >= m THEN s[1] ELSE m

Abs(n) == IF n < 0 THEN -n ELSE n

RECURSIVE Gcd(_, _)
Gcd(a, b) == IF b = 0 THEN a ELSE Gcd(b, a % b)

\* total / count as an exact quotient in lowest terms (count > 0).
Quotient(total, count) ==
    LET g == Gcd(Abs(total), count)
    IN  [num |-> total \div g, den |-> count \div g]

\* seq[:n]
Slice(s, n) ==
    IF n >= 0 THEN SubSeq(s, 1, IF n < Len(s) THEN n ELSE Len(s))
    ELSE SubSeq(s, 1, IF Len(s) + n > 0 THEN Len(s) + n ELSE 0)

\* list.count(x)
Count(s, x) == Cardinality({i \in DOMAIN s : s[i] = x})

(***************************************************************************)
(* Timestamps.                                                             *)
(***************************************************************************)
\* timestamp.replace("Z", "+00:00")
ReplaceZ(ts) == IF ts.form = "Z" THEN [ts EXCEPT !.form = "offset"] ELSE ts

\* datetime.fromisoformat(text): Some([date, hour]), or None for ValueError.
FromIsoFormat(ts) ==
    IF ts.form = "offset" THEN Some([date |-> ts.date, hour |-> ts.hour]) ELSE None

\* datetime.fromisoformat(timestamp.replace("Z", "+00:00")) inside the try:
\* None stands for the ValueError or AttributeError the except clause catches.
ParseTimestamp(timestamp) ==
    IF timestamp = None THEN None ELSE FromIsoFormat(ReplaceZ(Val(timestamp)))

\* f"{date}T12:00:00+00:00"
NoonTimestamp(date) == [form |-> "offset", date |-> date, hour |-> 12]

\* `not timestamp` for timestamp = hour_data.get("timestamp", "")
NoTimestamp(timestamp) == timestamp = None \/ Val(timestamp).form = "empty"

(***************************************************************************)
(* _aggregate_daily_data and _condition_to_icon.                           *)
(***************************************************************************)
\* Mutant: a value of 0 is taken as missing (`if h.get(key)`).
PresentNonZero(hourly_data, key) ==
    LET idx == SelectSeq([i \in 1..Len(hourly_data) |-> i],
                         LAMBDA i : hourly_data[i][key] # None
                                        /\ Val(hourly_data[i][key]) # 0)
    IN  [j \in 1..Len(idx) |-> Val(hourly_data[idx[j]][key])]

\* [h.get(key) for h in hourly_data if h.get(key) is not None]
Present(hourly_data, key) ==
    LET idx == SelectSeq([i \in 1..Len(hourly_data) |-> i],
                         LAMBDA i : hourly_data[i][key] # None)
    IN  [j \in 1..Len(idx) |-> Val(hourly_data[idx[j]][key])]

\* sum(xs) / len(xs) if xs else None
Average(xs) == IF xs = <<>> THEN None ELSE Some(Quotient(SeqSum(xs), Len(xs)))

\* sum(h.get("precipitation", 0) or 0 for h in hourly_data)
PrecipSum(hourly_data) == SeqSum(Present(hourly_data, "precipitation"))

\* Mutant: the hours 6 and 18 are not daytime.
InDaytimeExclusive(h) ==
    LET dt == ParseTimestamp(h.timestamp)
    IN  dt # None /\ 6 < Val(dt).hour /\ Val(dt).hour < 18 /\ Truthy(h.condition)

\* `if 6 <= dt.hour <= 18 and hour_data.get("condition")` after the parse
InDaytime(h) ==
    LET dt == ParseTimestamp(h.timestamp)
    IN  dt # None /\ 6 <= Val(dt).hour /\ Val(dt).hour <= 18 /\ Truthy(h.condition)

\* the loop that collects the conditions of the daytime hours (6-18)
DaytimeConditions(hourly_data) ==
    LET idx == SelectSeq([i \in 1..Len(hourly_data) |-> i],
                         LAMBDA i : InDaytime(hourly_data[i]))
    IN  [j \in 1..Len(idx) |-> Val(hourly_data[idx[j]].condition)]

\* iteration over set(xs): the members of xs in the order the process's
\* string hashing gives them.
SetIteration(xs, order) == SelectSeq(order, LAMBDA c : c \in Range(xs))

\* max(iterable, key=xs.count): the first item, in iteration order, whose
\* key no other item exceeds.
MaxByCount(iter, xs) ==
    LET best == CHOOSE i \in DOMAIN iter :
                    /\ \A j \in DOMAIN iter : Count(xs, iter[j]) <= Count(xs, iter[i])
                    /\ \A j \in 1..(i - 1) : Count(xs, iter[j]) < Count(xs, iter[i])
    IN  iter[best]

\* max(set(daytime_conditions), key=daytime_conditions.count)
MostCommon(daytime_conditions, order) ==
    MaxByCount(SetIteration(daytime_conditions, order), daytime_conditions)

ConditionToIcon(condition) ==
    CASE condition = "dry" -> "clear-day"
      [] condition = "fog" -> "fog"
      [] condition = "rain" -> "rain"
      [] condition = "sleet" -> "sleet"
      [] condition = "snow" -> "snow"
      [] condition = "hail" -> "hail"
      [] condition = "thunderstorm" -> "thunderstorm"
      [] OTHER -> "clear-day"

EmptyDict == [empty |-> TRUE]

AggregateDailyData(hourly_data, date, order) ==
    IF hourly_data = <<>> THEN EmptyDict
    ELSE
    LET temps == Present(hourly_data, "temperature")
        daytime_conditions == DaytimeConditions(hourly_data)
        condition == IF daytime_conditions # <<>>
                     THEN Some(MostCommon(daytime_conditions, order))
                     ELSE hourly_data[1].condition
        icon == IF daytime_conditions # <<>>
                THEN Some(ConditionToIcon(Val(condition)))
                ELSE hourly_data[1].icon
    IN  [timestamp |-> NoonTimestamp(date),
         temperature_min |-> IF temps # <<>> THEN Some(SeqMin(temps)) ELSE None,
         temperature_max |-> IF temps # <<>> THEN Some(SeqMax(temps)) ELSE None,
         precipitation |-> PrecipSum(hourly_data),
         pressure_msl |-> Average(Present(hourly_data, "pressure_msl")),
         relative_humidity |-> Average(Present(hourly_data, "relative_humidity")),
         cloud_cover |-> Average(Present(hourly_data, "cloud_cover")),
         wind_speed |-> Average(Present(hourly_data, "wind_speed")),
         condition |-> condition,
         icon |-> icon]

(***************************************************************************)
(* get_hourly_forecast and get_daily_forecast.                             *)
(***************************************************************************)
\* Mutant: every entry of the forecast is returned, whatever hours is.
GetHourlyForecastUncut(d, hours) ==
    IF d = None THEN <<>> ELSE Val(d).forecast.weather

GetHourlyForecast(d, hours) ==
    IF d = None THEN <<>> ELSE Slice(Val(d).forecast.weather, hours)

\* Mutant: the loop closes the previous day but does not take the new date
\* as current_date.
GroupStepKeepsDate(st, hour_data, order) ==
    LET dt == ParseTimestamp(hour_data.timestamp)
    IN  IF NoTimestamp(hour_data.timestamp) \/ dt = None THEN st
        ELSE
        LET date == Val(dt).date
            cur == IF st.current_date = None THEN date ELSE Val(st.current_date)
        IN  IF date # cur
            THEN [current_date |-> Some(cur),
                  daily_data |-> <<hour_data>>,
                  daily_forecasts |->
                      IF st.daily_data # <<>>
                      THEN Append(st.daily_forecasts,
                                  AggregateDailyData(st.daily_data, cur, order))
                      ELSE st.daily_forecasts]
            ELSE [current_date |-> Some(cur),
                  daily_data |-> Append(st.daily_data, hour_data),
                  daily_forecasts |-> st.daily_forecasts]

\* Mutant: an entry whose timestamp is missing or does not parse joins the
\* group that is open.
GroupStepKeepsSkipped(st, hour_data, order) ==
    LET dt == ParseTimestamp(hour_data.timestamp)
    IN  IF NoTimestamp(hour_data.timestamp) \/ dt = None
        THEN [st EXCEPT !.daily_data =
                  IF st.daily_data # <<>> THEN Append(st.daily_data, hour_data)
                  ELSE st.daily_data]
        ELSE
        LET date == Val(dt).date
            cur == IF st.current_date = None THEN date ELSE Val(st.current_date)
        IN  IF date # cur
            THEN [current_date |-> Some(date),
                  daily_data |-> <<hour_data>>,
                  daily_forecasts |->
                      IF st.daily_data # <<>>
                      THEN Append(st.daily_forecasts,
                                  AggregateDailyData(st.daily_data, cur, order))
                      ELSE st.daily_forecasts]
            ELSE [current_date |-> Some(cur),
                  daily_data |-> Append(st.daily_data, hour_data),
                  daily_forecasts |-> st.daily_forecasts]

\* One pass of the grouping loop over hour_data; st is
\* [current_date, daily_data, daily_forecasts].
GroupStep(st, hour_data, order) ==
    LET dt == ParseTimestamp(hour_data.timestamp)
    IN  IF NoTimestamp(hour_data.timestamp) \/ dt = None THEN st
        ELSE
        LET date == Val(dt).date
            cur == IF st.current_date = None THEN date ELSE Val(st.current_date)
        IN  IF date # cur
            THEN [current_date |-> Some(date),
                  daily_data |-> <<hour_data>>,
                  daily_forecasts |->
                      IF st.daily_data # <<>>
                      THEN Append(st.daily_forecasts,
                                  AggregateDailyData(st.daily_data, cur, order))
                      ELSE st.daily_forecasts]
            ELSE [current_date |-> Some(cur),
                  daily_data |-> Append(st.daily_data, hour_data),
                  daily_forecasts |-> st.daily_forecasts]

RECURSIVE GroupLoop(_, _, _)
GroupLoop(st, hourly_data, order) ==
    IF hourly_data = <<>> THEN st
    ELSE GroupLoop(GroupStep(st, Head(hourly_data), order), Tail(hourly_data), order)

HoursPerDay == 24

\* Mutant: the data of the last day is not processed after the loop.
GetDailyForecastWithoutLastDay(d, days, order) ==
    LET hourly_data == GetHourlyForecast(d, days * HoursPerDay)
    IN  IF hourly_data = <<>> THEN <<>>
        ELSE Slice(GroupLoop([current_date |-> None, daily_data |-> <<>>,
                              daily_forecasts |-> <<>>], hourly_data, order).daily_forecasts,
                   days)

GetDailyForecast(d, days, order) ==
    LET hourly_data == GetHourlyForecast(d, days * HoursPerDay)
    IN  IF hourly_data = <<>> THEN <<>>
        ELSE
        LET st == GroupLoop([current_date |-> None, daily_data |-> <<>>,
                             daily_forecasts |-> <<>>], hourly_data, order)
            daily_forecasts ==
                IF st.daily_data # <<>> /\ st.current_date # None
                THEN Append(st.daily_forecasts,
                            AggregateDailyData(st.daily_data, Val(st.current_date), order))
                ELSE st.daily_forecasts
        IN  Slice(daily_forecasts, days)

(***************************************************************************)
(* JSON values where the code looks at their type.  A JSON object in the   *)
(* place of a response body, of an hourly entry or of an item of the       *)
(* current `weather` array is the record of its keys; a value of another   *)
(* type in such a place is JList(..) or JString(..), a record with a       *)
(* `type` field.  The current `weather` value is always JDict(..),         *)
(* JList(..) or JString(..).                                               *)
(***************************************************************************)
JDict(fields) == [type |-> "dict", fields |-> fields]

JList(items) == [type |-> "list", items |-> items]

JString(text) == [type |-> "string", text |-> text]

\* isinstance(x, dict), or "x has .get", for x in the place of an object
IsObject(x) == "type" \notin DOMAIN x

\* `not x` for x in the place of an object
FalsyItem(x) ==
    IF IsObject(x) THEN x = EmptyDict
    ELSE IF x.type = "list" THEN x.items = <<>>
    ELSE x.text = ""

\* `not w` for a current `weather` value
FalsyWeather(w) ==
    w = None \/ CASE Val(w).type = "dict" -> Val(w).fields = EmptyDict
                  [] Val(w).type = "list" -> Val(w).items = <<>>
                  [] OTHER -> Val(w).text = ""

\* fields.get(key)
DictGet(fields, key) == IF key \in DOMAIN fields THEN fields[key] ELSE None

\* How a Python call ends.
Returned(value) == [raised |-> FALSE, value |-> value, exc |-> ""]

Raised(exc) == [raised |-> TRUE, value |-> None, exc |-> exc]

(***************************************************************************)
(* Calls of the accessors on a snapshot whose parts may be of any type.    *)
(***************************************************************************)
\* Mutant: get_current_weather gives one record: the object, or item 0 of
\* the array, and None for every other value.
GetCurrentWeatherAsRecord(d) ==
    IF d = None THEN None
    ELSE LET w == Val(d).current.weather
         IN  IF FalsyWeather(w) THEN None
             ELSE IF Val(w).type = "dict" THEN w
             ELSE IF Val(w).type = "list" /\ IsObject(Val(w).items[1])
                     /\ ~FalsyItem(Val(w).items[1])
             THEN Some(JDict(Val(w).items[1]))
             ELSE None

\* get_current_weather: the "weather" value of the current payload, as it is.
GetCurrentWeather(d) == IF d = None THEN None ELSE Val(d).current.weather

\* self.get_current_weather(): current_data.get raises AttributeError when
\* the current response is not an object.
CallGetCurrentWeather(d) ==
    IF d = None THEN Returned(None)
    ELSE IF ~IsObject(Val(d).current) THEN Raised("AttributeError")
    ELSE Returned(GetCurrentWeather(d))

\* self.get_hourly_forecast(hours)
CallGetHourlyForecast(d, hours) ==
    IF d = None THEN Returned(<<>>)
    ELSE IF ~IsObject(Val(d).forecast) THEN Raised("AttributeError")
    ELSE Returned(GetHourlyForecast(d, hours))

\* self.get_daily_forecast(days): hour_data.get("timestamp", "") stands before
\* the try and raises AttributeError for an entry that is not an object.
CallGetDailyForecastOn(d, days, order) ==
    LET hourly == CallGetHourlyForecast(d, days * HoursPerDay)
    IN  IF hourly.raised THEN hourly
        ELSE IF \E i \in DOMAIN hourly.value : ~IsObject(hourly.value[i])
        THEN Raised("AttributeError")
        ELSE Returned(GetDailyForecast(d, days, order))

(***************************************************************************)
(* sensor.py: the value and the availability of a sensor.                  *)
(***************************************************************************)
\* _get_current_sensor_value(data, key)
GetCurrentSensorValue(d, key) ==
    IF d = None THEN Returned(None)
    ELSE IF ~IsObject(Val(d).current) THEN Raised("AttributeError")
    ELSE
    LET current_weather == Val(d).current.weather
    IN  IF FalsyWeather(current_weather) THEN Returned(None)
        ELSE IF Val(current_weather).type = "list"
        THEN LET item == Val(current_weather).items[1]
             IN  IF FalsyItem(item) THEN Returned(None)
                 ELSE IF ~IsObject(item) THEN Raised("AttributeError")
                 ELSE Returned(DictGet(item, key))
        ELSE IF Val(current_weather).type = "dict"
        THEN Returned(DictGet(Val(current_weather).fields, key))
        ELSE Returned(None)

\* _is_sensor_data_available(data)
IsSensorDataAvailable(d) ==
    IF d = None THEN Returned(FALSE)
    ELSE IF ~IsObject(Val(d).current) THEN Raised("AttributeError")
    ELSE Returned(~FalsyWeather(Val(d).current.weather)
                      /\ Val(Val(d).current.weather).type \in {"list", "dict"})

(***************************************************************************)
(* weather.py: the properties of the weather entity.                       *)
(***************************************************************************)
\* The body of a property such as native_temperature after `current =
\* self.coordinator.get_current_weather()`: the field of the object, or of
\* item 0 of the array; an exception inside the try gives None.
EntityField(current, key) ==
    IF FalsyWeather(current) THEN None
    ELSE IF Val(current).type = "list"
    THEN LET item == Val(current).items[1]
         IN  IF FalsyItem(item) \/ ~IsObject(item) THEN None ELSE DictGet(item, key)
    ELSE IF Val(current).type = "dict" THEN DictGet(Val(current).fields, key)
    ELSE None

\* BrightSkyWeather.native_temperature
NativeTemperature(d) ==
    LET current == CallGetCurrentWeather(d)
    IN  IF current.raised THEN current
        ELSE Returned(EntityField(current.value, "temperature"))

\* Mutant: the visibility is passed on in metres.
MetresToMetres(visibility) == Quotient(visibility, 1)

\* visibility / 1000
MetresToKilometres(visibility) == Quotient(visibility, 1000)

\* BrightSkyWeather.visibility
Visibility(d) ==
    LET current == CallGetCurrentWeather(d)
    IN  IF current.raised THEN current
        ELSE LET visibility == EntityField(current.value, "visibility")
             IN  Returned(IF visibility # None
                          THEN Some(MetresToKilometres(Val(visibility)))
                          ELSE None)

\* CONDITION_MAP.get(condition, "sunny")
ConditionMap(condition) ==
    CASE condition = "dry" -> "sunny"
      [] condition = "fog" -> "fog"
      [] condition = "rain" -> "rainy"
      [] condition = "sleet" -> "snowy-rainy"
      [] condition = "snow" -> "snowy"
      [] condition = "hail" -> "hail"
      [] condition = "thunderstorm" -> "lightning"
      [] OTHER -> "sunny"

\* ICON_MAP.get(icon, "sunny")
IconMap(icon) ==
    CASE icon = "clear-day" -> "sunny"
      [] icon = "clear-night" -> "clear-night"
      [] icon = "partly-cloudy-day" -> "partlycloudy"
      [] icon = "partly-cloudy-night" -> "partlycloudy"
      [] icon = "cloudy" -> "cloudy"
      [] icon = "fog" -> "fog"
      [] icon = "wind" -> "windy"
      [] icon = "rain" -> "rainy"
      [] icon = "sleet" -> "snowy-rainy"
      [] icon = "snow" -> "snowy"
      [] icon = "hail" -> "hail"
      [] icon = "thunderstorm" -> "lightning"
      [] OTHER -> "sunny"

\* Mutant: the condition is looked at before the icon.
ConditionBeforeIcon(fields) ==
    LET icon == DictGet(fields, "icon")
        condition == DictGet(fields, "condition")
    IN  IF Truthy(condition) THEN ConditionMap(Val(condition))
        ELSE IF Truthy(icon) THEN IconMap(Val(icon))
        ELSE "sunny"

\* `icon = x.get("icon"); if icon: return ICON_MAP.get(icon, "sunny")`, then
\* the same for the condition, then the default at the end of the try.
IconBeforeCondition(fields) ==
    LET icon == DictGet(fields, "icon")
        condition == DictGet(fields, "condition")
    IN  IF Truthy(icon) THEN IconMap(Val(icon))
        ELSE IF Truthy(condition) THEN ConditionMap(Val(condition))
        ELSE "sunny"

\* BrightSkyWeather.condition
EntityCondition(d) ==
    LET current == CallGetCurrentWeather(d)
    IN  IF current.raised THEN current
        ELSE IF current.value = None THEN Returned("sunny")
        ELSE
        LET w == Val(current.value)
        IN  IF w.type = "list"
            THEN IF w.items = <<>> \/ FalsyItem(w.items[1]) \/ ~IsObject(w.items[1])
                 THEN Returned("sunny")
                 ELSE Returned(IconBeforeCondition(w.items[1]))
            ELSE IF w.type = "dict" THEN Returned(IconBeforeCondition(w.fields))
            ELSE Returned("sunny")

(***************************************************************************)
(* Sample payloads of the two endpoints.                                   *)
(***************************************************************************)
Ts(form, date, hour) == [form |-> form, date |-> date, hour |-> hour]

BadTs == [form |-> "bad", date |-> 0, hour |-> 0]

EmptyTs == [form |-> "empty", date |-> 0, hour |-> 0]

HourEntry(timestamp, condition) ==
    [timestamp |-> timestamp, temperature |-> Some(5), precipitation |-> Some(1),
     pressure_msl |-> None, relative_humidity |-> None, cloud_cover |-> None,
     wind_speed |-> None, condition |-> condition, icon |-> Some("cloudy")]

\* Timestamps the grouping loop skips: missing, "", and unparseable text.
SkippedTimestamps == {None, Some(EmptyTs), Some(BadTs)}

\* Day 1 at noon and at 3 in the night, day 2 at noon.
ValidTimestamps == {Some(Ts("Z", 1, 12)), Some(Ts("offset", 1, 3)), Some(Ts("Z", 2, 12))}

ConditionStrings == {"dry", "rain"}

ConditionSamples == {None} \cup {Some(c) : c \in ConditionStrings}

HourlySamples ==
    {HourEntry(t, Some("rain")) : t \in SkippedTimestamps}
        \cup {HourEntry(t, c) : t \in ValidTimestamps, c \in ConditionSamples}

\* More than a day of hourly entries: HoursPerDay times one entry with a
\* timestamp that parses, then another one.
LongHourlyInputs ==
    {[i \in 1..(HoursPerDay + 1) |-> IF i <= HoursPerDay THEN a ELSE b] :
        a \in {HourEntry(t, c) : t \in ValidTimestamps, c \in ConditionSamples},
        b \in {HourEntry(t, Some("rain")) : t \in ValidTimestamps}}

\* All hourly sequences of at most MaxHours sample entries, and the long ones.
HourlyInputs == UNION {[1..n -> HourlySamples] : n \in 0..MaxHours} \cup LongHourlyInputs

\* The orders in which a process may iterate a set of condition strings.
HashOrders ==
    {o \in [1..Cardinality(ConditionStrings) -> ConditionStrings] :
        Range(o) = ConditionStrings}

\* An hourly entry on the given day and hour; all but the temperature, the
\* condition and the icon is as in HourEntry.
FieldEntry(date, hour, temperature, condition, icon) ==
    [HourEntry(Some(Ts("Z", date, hour)), condition)
        EXCEPT !.temperature = temperature, !.icon = icon]

\* Entries around the daytime limits (hours 5, 6, 18, 19), with a condition
\* that is missing, "", known ("dry") or unknown to the icon table ("mist"),
\* and with a temperature that is missing, 0, above or below 0.
FieldSamples ==
    {FieldEntry(1, 5, Some(5), Some("dry"), None),
     FieldEntry(1, 5, None, None, Some("fog")),
     FieldEntry(1, 6, Some(0), None, Some("cloudy")),
     FieldEntry(1, 6, Some(5), Some(""), Some("cloudy")),
     FieldEntry(1, 6, None, Some("dry"), Some("cloudy")),
     FieldEntry(1, 6, Some(-3), Some("mist"), Some("cloudy")),
     FieldEntry(1, 18, Some(0), Some(""), None),
     FieldEntry(1, 18, Some(-3), Some("dry"), Some("fog")),
     FieldEntry(1, 18, Some(5), Some("mist"), Some("fog")),
     FieldEntry(1, 19, None, Some("mist"), Some("fog")),
     FieldEntry(2, 12, Some(0), Some("dry"), Some("cloudy")),
     FieldEntry(2, 19, Some(-3), Some("dry"), Some("rain"))}

FieldInputs == UNION {[1..n -> FieldSamples] : n \in 0..MaxHours}

\* The orders in which a process may iterate a set of these entries' conditions.
FieldHashOrders == {<<"dry", "mist">>, <<"mist", "dry">>}

CurrentRecord(t) ==
    [temperature |-> Some(t), condition |-> Some("dry"), icon |-> Some("clear-day")]

\* JSON bodies of GET /current_weather
CurrentSamples ==
    {[weather |-> Some(JDict(CurrentRecord(5)))],
     [weather |-> Some(JList(<<CurrentRecord(7)>>))]}

\* A record of the current weather with the keys the entities read.
WeatherRecord(temperature, visibility, condition, icon) ==
    [temperature |-> temperature, visibility |-> visibility,
     condition |-> condition, icon |-> icon]

\* Records with a temperature and a visibility that is missing, 0 or not,
\* and records with a condition and an icon that is missing, "", in the
\* table or not in it.
WeatherRecords ==
    {WeatherRecord(t, v, Some("dry"), Some("clear-day")) :
        t \in {None, Some(0), Some(5)},
        v \in {None, Some(0), Some(1500), Some(20000)}}
    \cup {WeatherRecord(Some(5), None, c, i) :
            c \in {None, Some(""), Some("dry"), Some("rain"), Some("smoke")},
            i \in {None, Some(""), Some("rain"), Some("cloudy"), Some("tornado")}}

\* Values of the `weather` key of a /current_weather body: missing, a
\* string, an empty array, an empty object, an array of an empty object or
\* of a string, and a record as object, in an array, and first in an array
\* of two.
WeatherShapes ==
    {None, Some(JString("n/a")), Some(JList(<<>>)), Some(JDict(EmptyDict)),
     Some(JList(<<EmptyDict>>)), Some(JList(<<JString("n/a")>>))}
    \cup {Some(JDict(r)) : r \in WeatherRecords}
    \cup {Some(JList(<<r>>)) : r \in WeatherRecords}
    \cup {Some(JList(<<r, CurrentRecord(7)>>)) : r \in WeatherRecords}

\* JSON bodies of GET /current_weather of any shape: objects, and an array.
CurrentResponses ==
    {[weather |-> w, fetched_in |-> 1] : w \in WeatherShapes} \cup {JList(<<>>)}

\* JSON bodies of GET /weather of any shape: objects whose `weather` holds
\* entries, one of them a string, and an array.
ForecastResponses ==
    {[weather |-> <<HourEntry(Some(Ts("Z", 1, 12)), Some("rain"))>>, fetched_in |-> 1],
     [weather |-> <<HourEntry(Some(Ts("Z", 1, 12)), Some("rain")), JString("n/a")>>,
      fetched_in |-> 1],
     JList(<<>>)}

\* The keys of the sensors read in the model.
SensorKeys == {"temperature", "visibility", "condition"}

\* JSON bodies of GET /weather
ForecastSamples ==
    {[weather |-> <<HourEntry(Some(Ts("Z", 1, 12)), Some("dry"))>>],
     [weather |-> <<HourEntry(Some(Ts("Z", 1, 12)), Some("rain")),
                    HourEntry(Some(Ts("Z", 2, 12)), None)>>]}

\* Messages of the transport errors (aiohttp ClientError) the requests raise.
ClientErrors == {"connection refused", "500 server error"}

(***************************************************************************)
(* _async_update_data.  One call is in flight at a time; its number is     *)
(* Cycle.  A response body is kept with the number of the call that        *)
(* fetched it (fetched_in), which the accessors never read.                *)
(***************************************************************************)
Cycle == Len(hist) + 1

Fetched(body) == [weather |-> body.weather, fetched_in |-> Cycle]

LogEntry(level, text, err) ==
    [cycle |-> Cycle, level |-> level, text |-> text, err |-> err]

\* Mutant: a request is sent a second time.
IssueRequestTwice(reqs, cycle, endpoint) ==
    reqs \o <<[cycle |-> cycle, endpoint |-> endpoint],
              [cycle |-> cycle, endpoint |-> endpoint]>>

\* session.get(url, params=params) in _get_current_weather or
\* _get_forecast_weather, called by the given _async_update_data call.
IssueRequest(reqs, cycle, endpoint) ==
    Append(reqs, [cycle |-> cycle, endpoint |-> endpoint])

\* data = {"current": current_data, "forecast": forecast_data}
NewData(current, forecast) == [current |-> current, forecast |-> forecast]

\* return data
ReturnOutcome(value) == [signal |-> "return", text |-> "", value |-> Some(value)]

\* Mutant: the ClientError clause returns what was fetched so far, filled up
\* with the old forecast, instead of raising.
ClientErrorReturnsPartial(current, old) ==
    IF current # None /\ old # None
    THEN [signal |-> "return", text |-> "",
          value |-> Some([current |-> Val(current), forecast |-> Val(old).forecast])]
    ELSE [signal |-> "UpdateFailed", text |-> "Error communicating with API", value |-> None]

\* raise UpdateFailed(f"Error communicating with API: {err}"); current and
\* old are the call's current_data and the coordinator's data at that point.
ClientErrorOutcome(current, old) ==
    [signal |-> "UpdateFailed", text |-> "Error communicating with API", value |-> None]

\* Mutant: the Exception clause returns the local data = {} instead of raising.
UnexpectedReturnsEmpty(current, old) == [signal |-> "return", text |-> "", value |-> None]

\* raise UpdateFailed(f"Unexpected error: {err}")
UnexpectedOutcome(current, old) ==
    [signal |-> "UpdateFailed", text |-> "Unexpected error", value |-> None]

\* The timeout context cancels the pending await and raises TimeoutError on
\* leaving the `async with`; no except clause of the try runs.
TimeoutOutcome == [signal |-> "TimeoutError", text |-> "", value |-> None]

\* Mutant: the transport-error entry is written whatever the flag is.
LogsClientErrorAlways(flag) == TRUE

\* `if not self._connect_error:` guards the transport-error log entry
LogsClientError(flag) == ~flag

\* Mutant: the ClientError clause leaves the flag as it is.
FlagKeptAfterClientError(flag) == flag

\* self._connect_error after the ClientError clause
FlagAfterClientError(flag) == TRUE

\* Mutant: a successful refresh leaves the flag as it is.
FlagKeptAfterSuccess(flag) == flag

\* self._connect_error = False before `return data`
FlagAfterSuccess(flag) == FALSE

\* Mutant: the Exception clause logs under the flag, as the ClientError clause does.
LogsUnexpectedUnlessFlag(flag) == ~flag

\* the Exception clause logs whatever the flag is
LogsUnexpected(flag) == TRUE

\* The caller of _async_update_data stores a returned value as
\* coordinator.data and leaves coordinator.data alone when the call raises.
Commit(old, out) == IF out.signal = "return" THEN out.value ELSE old

\* Mutant: set-up goes on whether or not the first refresh succeeded.
AfterFirstRefreshIgnoringFailure(out) == "store"

\* await weather_coordinator.async_config_entry_first_refresh(): set-up goes
\* on to the next statement when the refresh succeeds and is left by an
\* exception when it fails.
AfterFirstRefresh(out) == IF out.signal = "return" THEN "store" ELSE "failed"

\* End of a call: result names how it ended, stage the await it ended at.
Finish(result, stage, err, out) ==
    /\ hist' = Append(hist, [result |-> result, stage |-> stage, err |-> err,
                             signal |-> out.signal, text |-> out.text])
    /\ data' = Commit(data, out)
    /\ pc' = "idle"
    /\ current_data' = None
    /\ setup_pc' = IF setup_pc = "first_refresh" THEN AfterFirstRefresh(out) ELSE setup_pc
    /\ UNCHANGED <<requests, hass_data, platforms, update_listener, unsub_calls,
                   unload_ok, hash_order,
                   dailyVars, entityVars, configVars>>

\* A scheduled or requested refresh enters _async_update_data, which calls
\* _get_current_weather and awaits the response to its request.
StartRefresh ==
    /\ pc = "idle"
    /\ platforms
    /\ Len(hist) < MaxRefresh
    /\ pc' = "current"
    /\ requests' = IssueRequest(requests, Cycle, "current_weather")
    /\ UNCHANGED <<current_data, data, connect_error, log, hist, setupVars,
                   hash_order, dailyVars, entityVars, configVars>>

\* current_data = await self._get_current_weather() returns body; then
\* _get_forecast_weather is called and the response to its request awaited.
FetchCurrentOk ==
    /\ pc = "current"
    /\ requests' = IssueRequest(requests, Cycle, "weather")
    /\ \E body \in CurrentSamples :
          /\ current_data' = Some(Fetched(body))
          /\ log' = Append(log, LogEntry("debug", "BrightSky current weather API response", ""))
    /\ pc' = "forecast"
    /\ UNCHANGED <<data, connect_error, hist, setupVars, hash_order,
                   dailyVars, entityVars, configVars>>

\* forecast_data = await self._get_forecast_weather() returns body
FetchForecastOk ==
    /\ pc = "forecast"
    /\ \E body \in ForecastSamples :
          /\ log' = Append(log, LogEntry("debug", "BrightSky forecast data fetched successfully", ""))
          /\ connect_error' = FlagAfterSuccess(connect_error)
          /\ Finish("ok", pc, "", ReturnOutcome(NewData(Val(current_data), Fetched(body))))

\* either request raises aiohttp.ClientError
FetchClientError ==
    /\ pc \in {"current", "forecast"}
    /\ \E err \in ClientErrors :
          /\ log' = IF LogsClientError(connect_error)
                    THEN Append(log, LogEntry("error", "Error communicating with BrightSky API", err))
                    ELSE log
          /\ connect_error' = IF LogsClientError(connect_error)
                              THEN FlagAfterClientError(connect_error)
                              ELSE connect_error
          /\ Finish("transport", pc, err, ClientErrorOutcome(current_data, data))

\* either request raises any other Exception (a body that is not JSON, ...)
FetchUnexpected ==
    /\ pc \in {"current", "forecast"}
    /\ log' = IF LogsUnexpected(connect_error)
              THEN Append(log, LogEntry("error", "Unexpected error fetching BrightSky data", "invalid json"))
              ELSE log
    /\ UNCHANGED connect_error
    /\ Finish("unexpected", pc, "invalid json", UnexpectedOutcome(current_data, data))

\* async_timeout.timeout(60) expires while a request is awaited
Timeout ==
    /\ pc \in {"current", "forecast"}
    /\ UNCHANGED <<log, connect_error>>
    /\ Finish("timeout", pc, "", TimeoutOutcome)

(***************************************************************************)
(* async_setup_entry.                                                      *)
(***************************************************************************)
\* _get_config_value(entry, CONF_SCAN_INTERVAL): the value in the options,
\* else the value in the data, else None.
GetConfigValue(e) ==
    IF e.options # None THEN e.options
    ELSE IF e.data # None THEN e.data
    ELSE None

DEFAULT_SCAN_INTERVAL == 1800

\* entry.data.get(CONF_SCAN_INTERVAL, DEFAULT_SCAN_INTERVAL)
DataScanInterval(e) == IF e.data # None THEN Val(e.data) ELSE DEFAULT_SCAN_INTERVAL

\* `if not scan_interval: scan_interval = entry.data.get(...)`: None and 0
\* are falsy.
ConfiguredOrFallback(e) ==
    LET scan_interval == GetConfigValue(e)
    IN  IF scan_interval = None \/ Val(scan_interval) = 0
        THEN DataScanInterval(e)
        ELSE Val(scan_interval)

MinScanInterval == 60

\* Mutant: the scan interval is taken as it is.
Unclamped(scan_interval) == scan_interval

\* max(scan_interval, 60)
AtLeastMinimum(scan_interval) ==
    IF scan_interval > MinScanInterval THEN scan_interval ELSE MinScanInterval

\* The seconds of the timedelta async_setup_entry makes the coordinator with.
ScanInterval(e) == AtLeastMinimum(ConfiguredOrFallback(e))

\* Lines up to the await of the first refresh: a new coordinator is made
\* with the scan interval as its update interval, and its first
\* _async_update_data call starts.
SetupEntry ==
    /\ setup_pc \in {"none", "failed", "unloaded"}
    /\ setup_pc' = "first_refresh"
    /\ pc' = "current"
    /\ current_data' = None
    /\ data' = None
    /\ connect_error' = FALSE
    /\ log' = <<>>
    /\ hist' = <<>>
    /\ requests' = IssueRequest(<<>>, 1, "current_weather")
    /\ update_interval' = Some(ScanInterval(entry))
    /\ UNCHANGED <<hass_data, platforms, update_listener, unsub_calls, unload_ok,
                   hash_order, dailyVars, entityVars, entry>>

\* hass.data[DOMAIN][entry.entry_id] = {...}
StoreEntry ==
    /\ setup_pc = "store"
    /\ hass_data' = Some([weather_coordinator |-> TRUE, update_listener |-> FALSE])
    /\ setup_pc' = "forward"
    /\ UNCHANGED <<coordVars, platforms, update_listener, unsub_calls, unload_ok,
                   hash_order, dailyVars, entityVars, configVars>>

\* await hass.config_entries.async_forward_entry_setups(entry, PLATFORMS)
ForwardPlatforms ==
    /\ setup_pc = "forward"
    /\ platforms' = TRUE
    /\ setup_pc' = "listener"
    /\ UNCHANGED <<coordVars, hass_data, update_listener, unsub_calls, unload_ok,
                   hash_order, dailyVars, entityVars, configVars>>

\* entry.add_update_listener(...), stored under UPDATE_LISTENER; return True
RegisterListener ==
    /\ setup_pc = "listener"
    /\ update_listener' = TRUE
    /\ hass_data' = Some([Val(hass_data) EXCEPT !.update_listener = TRUE])
    /\ unsub_calls' = 0
    /\ setup_pc' = "done"
    /\ UNCHANGED <<coordVars, platforms, unload_ok, hash_order, dailyVars, entityVars,
                   configVars>>

(***************************************************************************)
(* async_unload_entry.                                                     *)
(***************************************************************************)
\* Mutant: the entry stays in hass.data[DOMAIN].
KeepEntry(stored) == stored

\* hass.data[DOMAIN].pop(entry.entry_id)
PopEntry(stored) == None

\* The host unloads a loaded entry: async_unload_platforms gives unload_ok;
\* when it is true the stored unsubscribe callback is called and the entry
\* is removed from hass.data[DOMAIN]; unload_ok is returned.
UnloadEntry ==
    /\ setup_pc = "done"
    /\ \E ok \in BOOLEAN :
          /\ unload_ok' = Some(ok)
          /\ IF ok
             THEN /\ platforms' = FALSE
                  /\ unsub_calls' = unsub_calls + 1
                  /\ update_listener' = FALSE
                  /\ hass_data' = PopEntry(hass_data)
                  /\ setup_pc' = "unloaded"
             ELSE UNCHANGED <<platforms, unsub_calls, update_listener, hass_data, setup_pc>>
    /\ UNCHANGED <<coordVars, hash_order, dailyVars, entityVars, configVars>>

\* The entry the config flow makes when the user leaves the form's default.
DefaultEntry == [options |-> None, data |-> Some(DEFAULT_SCAN_INTERVAL)]

\* Scan intervals a user may enter: the forms take any int.
ScanIntervalSamples == {-5, 0, 30, 59, 60, 61, 3600}

OptionalScanIntervals == {None} \cup {Some(n) : n \in ScanIntervalSamples}

\* Entries with and without a scan interval in their options and data.
EntryConfigs == {[options |-> o, data |-> dd] : o \in OptionalScanIntervals,
                                                dd \in OptionalScanIntervals}

\* The state before async_setup_entry is called for one of the entries.
InitOn(entries) ==
    /\ pc = "idle"
    /\ current_data = None
    /\ data = None
    /\ connect_error = FALSE
    /\ log = <<>>
    /\ hist = <<>>
    /\ requests = <<>>
    /\ setup_pc = "none"
    /\ hass_data = None
    /\ platforms = FALSE
    /\ update_listener = FALSE
    /\ unsub_calls = 0
    /\ unload_ok = None
    /\ hash_order \in HashOrders
    /\ daily_days = None
    /\ daily_result = None
    /\ observed = None
    /\ entry \in entries
    /\ update_interval = None

Init == InitOn({DefaultEntry})

InitConfig == InitOn(EntryConfigs)

Next ==
    \/ SetupEntry
    \/ StoreEntry
    \/ ForwardPlatforms
    \/ RegisterListener
    \/ StartRefresh
    \/ FetchCurrentOk
    \/ FetchForecastOk
    \/ FetchClientError
    \/ FetchUnexpected
    \/ Timeout

Spec == Init /\ [][Next]_vars

\* async_setup_entry with its first refresh, for the entries of EntryConfigs.
NextSetup ==
    \/ SetupEntry
    \/ FetchCurrentOk
    \/ FetchForecastOk
    \/ FetchClientError
    \/ FetchUnexpected
    \/ Timeout
    \/ StoreEntry
    \/ ForwardPlatforms
    \/ RegisterListener

SpecConfig == InitConfig /\ [][NextSetup]_vars

\* Set-up, unload and set-up again of an entry, in any order the host allows.
NextLifecycle ==
    \/ NextSetup
    \/ UnloadEntry

SpecLifecycle == InitConfig /\ [][NextLifecycle]_vars

(***************************************************************************)
(* get_daily_forecast on a committed snapshot: the coordinator is set up,  *)
(* its first refresh has committed a forecast of sample hourly entries,    *)
(* and the weather entity calls get_daily_forecast.                        *)
(***************************************************************************)
\* The state after async_setup_entry and one successful refresh that
\* committed one of the given snapshots.
InitLoaded(snapshots, orders) ==
    /\ pc = "idle"
    /\ current_data = None
    /\ \E snapshot \in snapshots : data = Some(snapshot)
    /\ connect_error = FALSE
    /\ log = <<[cycle |-> 1, level |-> "debug",
                text |-> "BrightSky current weather API response", err |-> ""],
               [cycle |-> 1, level |-> "debug",
                text |-> "BrightSky forecast data fetched successfully", err |-> ""]>>
    /\ hist = <<[result |-> "ok", stage |-> "forecast", err |-> "",
                 signal |-> "return", text |-> ""]>>
    /\ requests = <<[cycle |-> 1, endpoint |-> "current_weather"],
                    [cycle |-> 1, endpoint |-> "weather"]>>
    /\ setup_pc = "done"
    /\ hass_data = Some([weather_coordinator |-> TRUE, update_listener |-> TRUE])
    /\ platforms = TRUE
    /\ update_listener = TRUE
    /\ unsub_calls = 0
    /\ unload_ok = None
    /\ hash_order \in orders
    /\ daily_days = None
    /\ daily_result = None
    /\ observed = None
    /\ entry = DefaultEntry
    /\ update_interval = Some(ScanInterval(entry))

InitDailyOn(inputs, orders) ==
    InitLoaded({NewData([weather |-> Some(JDict(CurrentRecord(5))), fetched_in |-> 1],
                        [weather |-> hourly, fetched_in |-> 1]) : hourly \in inputs},
               orders)

InitDaily == InitDailyOn(HourlyInputs, HashOrders)

InitDailyFields == InitDailyOn(FieldInputs, FieldHashOrders)

\* forecasts = self.coordinator.get_daily_forecast(days)
CallGetDailyForecast ==
    /\ \E days \in 1..MaxDays :
          /\ daily_days' = Some(days)
          /\ daily_result' = Some(GetDailyForecast(data, days, hash_order))
    /\ UNCHANGED <<coordVars, setupVars, hash_order, entityVars, configVars>>

NextDaily == CallGetDailyForecast

SpecDaily == InitDaily /\ [][NextDaily]_vars

\* The same call on forecasts of the entries of FieldSamples.
SpecDailyFields == InitDailyFields /\ [][NextDaily]_vars

(***************************************************************************)
(* The sensors and the weather entity read a committed snapshot whose      *)
(* parts have any of the sample shapes.                                    *)
(***************************************************************************)
InitEntity ==
    InitLoaded({NewData(c, f) : c \in CurrentResponses, f \in ForecastResponses},
               HashOrders)

\* What is kept of a read: the function, its key or number argument, and
\* how the call ended.
Observed(fn, key, n, out) == Some([fn |-> fn, key |-> key, n |-> n, out |-> out])

\* a consumer calls coordinator.get_current_weather()
ReadCurrentWeather ==
    /\ observed' = Observed("get_current_weather", "", 0, CallGetCurrentWeather(data))
    /\ UNCHANGED <<coordVars, setupVars, hash_order, dailyVars, configVars>>

\* a consumer calls coordinator.get_hourly_forecast(hours)
ReadHourlyForecast ==
    /\ \E hours \in {1, 48} :
          observed' = Observed("get_hourly_forecast", "", hours,
                               CallGetHourlyForecast(data, hours))
    /\ UNCHANGED <<coordVars, setupVars, hash_order, dailyVars, configVars>>

\* a consumer calls coordinator.get_daily_forecast(days)
ReadDailyForecast ==
    /\ \E days \in 1..MaxDays :
          observed' = Observed("get_daily_forecast", "", days,
                               CallGetDailyForecastOn(data, days, hash_order))
    /\ UNCHANGED <<coordVars, setupVars, hash_order, dailyVars, configVars>>

\* BrightSkySensor.native_value of the sensor with the given key
SensorNativeValue ==
    /\ \E key \in SensorKeys :
          observed' = Observed("sensor.native_value", key, 0,
                               GetCurrentSensorValue(data, key))
    /\ UNCHANGED <<coordVars, setupVars, hash_order, dailyVars, configVars>>

\* BrightSkySensor.available, the part of available_fn
SensorAvailable ==
    /\ observed' = Observed("sensor.available", "", 0, IsSensorDataAvailable(data))
    /\ UNCHANGED <<coordVars, setupVars, hash_order, dailyVars, configVars>>

\* BrightSkyWeather.native_temperature
WeatherNativeTemperature ==
    /\ observed' = Observed("weather.native_temperature", "temperature", 0,
                            NativeTemperature(data))
    /\ UNCHANGED <<coordVars, setupVars, hash_order, dailyVars, configVars>>

\* BrightSkyWeather.visibility
WeatherVisibility ==
    /\ observed' = Observed("weather.visibility", "visibility", 0, Visibility(data))
    /\ UNCHANGED <<coordVars, setupVars, hash_order, dailyVars, configVars>>

\* BrightSkyWeather.condition
WeatherCondition ==
    /\ observed' = Observed("weather.condition", "", 0, EntityCondition(data))
    /\ UNCHANGED <<coordVars, setupVars, hash_order, dailyVars, configVars>>

NextEntity ==
    \/ ReadCurrentWeather
    \/ ReadHourlyForecast
    \/ ReadDailyForecast
    \/ SensorNativeValue
    \/ SensorAvailable
    \/ WeatherNativeTemperature
    \/ WeatherVisibility
    \/ WeatherCondition

SpecEntity == InitEntity /\ [][NextEntity]_vars

(***************************************************************************)
(* Properties of the refresh cycle (checked under Spec).                   *)
(***************************************************************************)
Last == hist[Len(hist)]

\* The refreshes j+1 .. i-1 hold no success.
NoSuccessBetween(j, i) == \A k \in (j + 1)..(i - 1) : hist[k].result # "ok"

\* The error entries refresh i wrote with the given text.
ErrorEntries(i, text) ==
    {k \in DOMAIN log : log[k].cycle = i /\ log[k].level = "error" /\ log[k].text = text}

TransportLogged(i) == ErrorEntries(i, "Error communicating with BrightSky API") # {}

UnexpectedLogged(i) == ErrorEntries(i, "Unexpected error fetching BrightSky data") # {}

\* An earlier transport error of the same failure streak.
EarlierTransport(i) ==
    \E j \in 1..(i - 1) : hist[j].result = "transport" /\ NoSuccessBetween(j, i)

\* C1: the snapshot is empty, or a pair {current, forecast} whose two parts
\* were fetched by one and the same refresh, and that refresh succeeded.
C1_SnapshotFromOneRefresh ==
    \/ data = None
    \/ LET d == Val(data)
       IN  /\ DOMAIN d = {"current", "forecast"}
           /\ d.current.fetched_in = d.forecast.fetched_in
           /\ d.current.fetched_in \in 1..Len(hist)
           /\ hist[d.current.fetched_in].result = "ok"

\* C1 witness: a later refresh fetched the current weather and then failed
\* at the forecast request, and the snapshot of an earlier refresh is there.
C1_Witness ==
    /\ data # None
    /\ hist # <<>>
    /\ Last.result # "ok"
    /\ Last.stage = "forecast"
    /\ Val(data).current.fetched_in < Len(hist)

\* A step that ends a refresh in failure.
FailedRefreshStep == Len(hist') = Len(hist) + 1 /\ hist'[Len(hist')].result # "ok"

\* C2: a refresh that fails (transport error, other exception or timeout)
\* leaves the snapshot as it was, so get_current_weather,
\* get_hourly_forecast and get_daily_forecast return what they returned
\* before it.
C2_FailureKeepsSnapshot ==
    [][FailedRefreshStep =>
          /\ data' = data
          /\ GetCurrentWeather(data') = GetCurrentWeather(data)
          /\ \A hours \in {1, 2, 48} :
                GetHourlyForecast(data', hours) = GetHourlyForecast(data, hours)
          /\ \A days \in {1, 2, 7} :
                GetDailyForecast(data', days, hash_order')
                    = GetDailyForecast(data, days, hash_order)]_vars

\* C2 witness: successes and failures of every kind came first, then a
\* refresh failed, and the snapshot is still the one of the last success.
C2_Witness ==
    /\ Len(hist) >= 4
    /\ hist[1].result = "ok"
    /\ hist[2].result = "transport"
    /\ hist[3].result = "ok"
    /\ Last.result = "timeout"
    /\ data # None
    /\ Val(data).current.fetched_in = 3

\* C3 as stated: in every maximal run of consecutive transport-error
\* refreshes the first one is logged and the others are not.
C3_FirstOfRunLogged ==
    \A i \in DOMAIN hist :
        hist[i].result = "transport" =>
            (TransportLogged(i) <=> (i = 1 \/ hist[i - 1].result # "transport"))

\* C3 amended: a transport-error refresh writes the transport-error entry,
\* once, exactly when no transport error came before it since the last
\* successful refresh (or since the coordinator was made); every other
\* transport error is not logged.
C3_LoggedOncePerStreak ==
    \A i \in DOMAIN hist :
        hist[i].result = "transport" =>
            /\ TransportLogged(i) <=> ~EarlierTransport(i)
            /\ Cardinality(ErrorEntries(i, "Error communicating with BrightSky API")) <= 1

\* C3 witness: success, transport error (logged), another kind of failure,
\* transport error (not logged).
C3_Witness ==
    /\ Len(hist) = 4
    /\ hist[2].result = "transport" /\ TransportLogged(2)
    /\ hist[3].result \in {"unexpected", "timeout"}
    /\ hist[4].result = "transport" /\ ~TransportLogged(4)

\* The last transport error logged before refresh i in its failure streak.
LastLoggedBefore(j, i) ==
    /\ j < i
    /\ hist[j].result = "transport"
    /\ TransportLogged(j)
    /\ NoSuccessBetween(j, i)
    /\ \A k \in (j + 1)..(i - 1) : ~TransportLogged(k)

\* C4 as stated: within a failure streak a transport error whose message
\* differs from that of the transport error logged before it is logged.
C4_DifferentMessageLogged ==
    \A i \in DOMAIN hist : \A j \in DOMAIN hist :
        (hist[i].result = "transport" /\ LastLoggedBefore(j, i) /\ hist[i].err # hist[j].err)
            => TransportLogged(i)

\* C4 amended: within a failure streak, after a logged transport error, a
\* failure of another kind (a non-transport exception) is logged at once,
\* and a further transport error is not logged, whatever its message.
C4_OnlyOtherKindLogged ==
    \A i \in DOMAIN hist :
        EarlierTransport(i) =>
            /\ hist[i].result = "unexpected" => UnexpectedLogged(i)
            /\ hist[i].result = "transport" => ~TransportLogged(i)

\* C4 witness: two transport errors with different messages follow each
\* other; the first is logged, the second is not.
C4_Witness ==
    \E i \in DOMAIN hist :
        /\ i > 1
        /\ hist[i].result = "transport"
        /\ hist[i - 1].result = "transport"
        /\ hist[i].err # hist[i - 1].err
        /\ TransportLogged(i - 1)
        /\ ~TransportLogged(i)

\* C5: a refresh that fails with a non-transport exception ends with
\* UpdateFailed, with a message other than the transport-error message, and
\* writes exactly one error entry, whatever the flag and the earlier
\* failures.
C5_UnexpectedAlwaysLogged ==
    \A i \in DOMAIN hist :
        hist[i].result = "unexpected" =>
            /\ hist[i].signal = "UpdateFailed"
            /\ hist[i].text = "Unexpected error"
            /\ hist[i].text # ClientErrorOutcome(None, None).text
            /\ Cardinality({k \in DOMAIN log : log[k].cycle = i /\ log[k].level = "error"}) = 1
            /\ UnexpectedLogged(i)

\* C5 witness: a non-transport failure while the flag is set by a transport
\* error two failures earlier.
C5_Witness ==
    /\ Len(hist) >= 3
    /\ Last.result = "unexpected"
    /\ hist[Len(hist) - 1].result = "unexpected"
    /\ hist[Len(hist) - 2].result = "transport"
    /\ connect_error
    /\ UnexpectedLogged(Len(hist))

\* C6: when the first refresh of async_setup_entry fails, set-up ends there:
\* nothing is stored under the entry id, no platform is forwarded and no
\* update listener is registered; so platforms (and their entities) exist
\* only with a snapshot.
C6_FailedFirstRefreshEndsSetup ==
    /\ (hist # <<>> /\ hist[1].result # "ok") =>
            /\ setup_pc = "failed"
            /\ hass_data = None
            /\ ~platforms
            /\ ~update_listener
    /\ setup_pc = "first_refresh" => (hass_data = None /\ ~platforms /\ ~update_listener)
    /\ platforms => data # None

\* C6 witness: the first refresh has failed and set-up was left.
C6_Witness ==
    /\ setup_pc = "failed"
    /\ Len(hist) = 1
    /\ hist[1].result # "ok"
    /\ data = None

\* The places in `requests` of the requests refresh i sent to an endpoint.
RequestsOf(i, endpoint) ==
    {k \in DOMAIN requests : requests[k].cycle = i /\ requests[k].endpoint = endpoint}

\* Refresh i has received and parsed the current-weather response.
CurrentParsed(i) ==
    \E k \in DOMAIN log :
        log[k].cycle = i /\ log[k].text = "BrightSky current weather API response"

\* C21: a refresh issues at most one current-weather request and at most
\* one forecast request, the forecast request only after the
\* current-weather response was received and parsed; a refresh that fails
\* at the current-weather request issues no forecast request; no request
\* is repeated within a refresh.
C21_OneRequestEachInOrder ==
    /\ \A k \in DOMAIN requests : requests[k].cycle \in 1..Cycle
    /\ \A i \in 1..Cycle :
          /\ Cardinality(RequestsOf(i, "current_weather")) <= 1
          /\ Cardinality(RequestsOf(i, "weather")) <= 1
          /\ \A k \in RequestsOf(i, "weather") :
                /\ CurrentParsed(i)
                /\ \E j \in RequestsOf(i, "current_weather") : j < k
          /\ (i \in DOMAIN hist /\ hist[i].result # "ok" /\ hist[i].stage = "current")
                => RequestsOf(i, "weather") = {}

\* C21 witness: the first refresh sent both requests, the second failed at
\* the current-weather request and sent no forecast request.
C21_Witness ==
    /\ Len(hist) >= 2
    /\ hist[2].result # "ok"
    /\ hist[2].stage = "current"
    /\ RequestsOf(1, "weather") # {}
    /\ RequestsOf(2, "current_weather") # {}
    /\ RequestsOf(2, "weather") = {}

\* A step that ends a refresh with the given result.
RefreshEnds(result) ==
    Len(hist') = Len(hist) + 1 /\ hist'[Len(hist')].result = result

\* A step in which async_setup_entry makes a new coordinator.
NewCoordinator == setup_pc # "first_refresh" /\ setup_pc' = "first_refresh"

\* The last refresh that was a success or a transport error was a
\* transport error.
LastDecisiveIsTransport ==
    \E i \in DOMAIN hist :
        /\ hist[i].result = "transport"
        /\ \A k \in (i + 1)..Len(hist) : hist[k].result \notin {"ok", "transport"}

\* The flag of one coordinator changes only at the end of a
\* transport-error refresh, to true, and of a successful one, to false.
FlagFrame ==
    (connect_error' # connect_error /\ ~NewCoordinator) =>
        \/ RefreshEnds("transport") /\ connect_error'
        \/ RefreshEnds("ok") /\ ~connect_error'

\* In transport error, unexpected error, transport error the second
\* transport error is not logged.
SecondTransportSilent ==
    \A i \in DOMAIN hist :
        (/\ i + 2 \in DOMAIN hist
         /\ hist[i].result = "transport"
         /\ hist[i + 1].result = "unexpected"
         /\ hist[i + 2].result = "transport") => ~TransportLogged(i + 2)

\* C22: _connect_error is changed only by a transport-error refresh (to
\* true) and by a successful refresh (to false); a refresh that fails with
\* another exception or by timeout leaves it as it is.  So the flag is true
\* exactly when the last refresh that was a success or a transport error
\* was a transport error, and in transport error, unexpected error,
\* transport error the second transport error is not logged.
C22_FlagFollowsLastDecisive ==
    /\ [][FlagFrame]_vars
    /\ [][(RefreshEnds("unexpected") \/ RefreshEnds("timeout"))
              => connect_error' = connect_error]_vars
    /\ [](connect_error <=> LastDecisiveIsTransport)
    /\ []SecondTransportSilent

\* C22 witness: transport error, unexpected error, transport error; the
\* flag is set and the last refresh wrote no error entry.
C22_Witness ==
    /\ Len(hist) = 4
    /\ hist[2].result = "transport"
    /\ hist[3].result = "unexpected"
    /\ hist[4].result = "transport"
    /\ connect_error
    /\ ErrorEntries(4, "Error communicating with BrightSky API") = {}

(***************************************************************************)
(* Properties of get_daily_forecast (checked under SpecDaily).             *)
(***************************************************************************)
\* The hourly sequence of the committed forecast.
Hourly == Val(data).forecast.weather

Parseable(hour_data) == ParseTimestamp(hour_data.timestamp) # None

\* The calendar dates of the entries whose timestamp parses, in input order.
DatesOf(hourly_data) ==
    LET idx == SelectSeq([i \in 1..Len(hourly_data) |-> i],
                         LAMBDA i : Parseable(hourly_data[i]))
    IN  [j \in 1..Len(idx) |-> Val(ParseTimestamp(hourly_data[idx[j]].timestamp)).date]

DistinctDates(hourly_data) == Range(DatesOf(hourly_data))

\* Equal dates are next to each other.
DatesContiguous(ds) ==
    \A i \in DOMAIN ds : \A j \in DOMAIN ds :
        (i < j /\ ds[i] = ds[j]) => \A k \in i..j : ds[k] = ds[i]

\* The number of maximal runs of one date.
RunCount(ds) == Cardinality({i \in DOMAIN ds : i = 1 \/ ds[i] # ds[i - 1]})

\* C8 as stated: get_daily_forecast returns at most as many summaries as
\* there are distinct calendar dates among the input entries' timestamps.
C8_AtMostDistinctDates ==
    daily_result # None =>
        Len(Val(daily_result)) <= Cardinality(DistinctDates(Hourly))

\* C8 amended: it returns at most as many summaries as there are maximal
\* runs of one calendar date among the entries whose timestamp parses; so
\* at most as many as there are distinct dates when equal dates are next to
\* each other (as in a chronological sequence).
C8_AtMostDateRuns ==
    daily_result # None =>
        /\ Len(Val(daily_result)) <= RunCount(DatesOf(Hourly))
        /\ DatesContiguous(DatesOf(Hourly)) =>
                Len(Val(daily_result)) <= Cardinality(DistinctDates(Hourly))

\* C8 witness: three entries, one of them skipped, two dates next to each
\* other, two summaries.
C8_Witness ==
    /\ daily_result # None
    /\ Len(Hourly) = 3
    /\ Len(DatesOf(Hourly)) = 2
    /\ Cardinality(DistinctDates(Hourly)) = 2
    /\ Len(Val(daily_result)) = 2

\* C9 as stated: for a non-empty hourly sequence and days >= 1 the result
\* holds at least one summary.
C9_NonEmptyGivesSummary ==
    (daily_result # None /\ Hourly # <<>> /\ Val(daily_days) >= 1) =>
        Len(Val(daily_result)) >= 1

\* C9 amended: for days >= 1 the result holds at least one summary exactly
\* when one of the first days*24 entries has a timestamp that parses.
C9_ParseableGivesSummary ==
    (daily_result # None /\ Val(daily_days) >= 1) =>
        (Len(Val(daily_result)) >= 1
            <=> DatesOf(Slice(Hourly, Val(daily_days) * HoursPerDay)) # <<>>)

\* C9 witness: the first entry is skipped, a later one parses, and there is
\* a summary.
C9_Witness ==
    /\ daily_result # None
    /\ Len(Hourly) >= 2
    /\ ~Parseable(Hourly[1])
    /\ Len(Val(daily_result)) = 1

\* The calendar date of an entry whose timestamp parses.
DateOf(hour_data) == Val(ParseTimestamp(hour_data.timestamp)).date

\* The maximal runs of consecutive entries of one date, in input order; the
\* timestamp of every entry of es parses.
RECURSIVE DateRuns(_)
DateRuns(es) ==
    IF es = <<>> THEN <<>>
    ELSE LET n == CHOOSE k \in 1..Len(es) :
                      /\ \A i \in 1..k : DateOf(es[i]) = DateOf(es[1])
                      /\ k = Len(es) \/ DateOf(es[k + 1]) # DateOf(es[1])
         IN  <<SubSeq(es, 1, n)>> \o DateRuns(SubSeq(es, n + 1, Len(es)))

\* The date runs among the first days*24 entries of the committed forecast.
ConsideredRuns(days) == DateRuns(SelectSeq(Slice(Hourly, days * 24), Parseable))

\* C11: get_daily_forecast(days) returns, in input order, the summaries of
\* the first `days` maximal runs of consecutive entries of one calendar date
\* among the first days*24 entries; a run ends exactly where the date
\* changes, a date that comes back starts a run of its own, every summary
\* carries the timestamp <date of its run>T12:00:00+00:00, and the result
\* holds at most `days` summaries.
C11_SummariesOfFirstRuns ==
    daily_result # None =>
        LET days == Val(daily_days)
            runs == ConsideredRuns(days)
            res == Val(daily_result)
        IN  /\ Len(res) <= days
            /\ Len(res) = (IF Len(runs) < days THEN Len(runs) ELSE days)
            /\ \A k \in 1..Len(res) :
                  /\ res[k] = AggregateDailyData(runs[k], DateOf(runs[k][1]), hash_order)
                  /\ res[k].timestamp =
                        [form |-> "offset", date |-> DateOf(runs[k][1]), hour |-> 12]

\* C11 witness: the dates day 1, day 2, day 1 give three summaries in that
\* order.
C11_Witness ==
    /\ daily_result # None
    /\ DatesOf(Hourly) = <<1, 2, 1>>
    /\ Len(Val(daily_result)) = 3
    /\ Val(daily_result)[1].timestamp.date = 1
    /\ Val(daily_result)[2].timestamp.date = 2
    /\ Val(daily_result)[3].timestamp.date = 1

\* The committed snapshot with the hourly entries es as its forecast.
WithForecast(es) == Some([Val(data) EXCEPT !.forecast.weather = es])

\* C12: an entry whose timestamp is missing, empty or unparseable is
\* skipped: it starts, joins and ends no group and adds nothing to a
\* summary, so get_daily_forecast returns the same for the considered
\* entries (the first days*24) with and without the skipped ones.
C12_SkippedEntriesChangeNothing ==
    daily_result # None =>
        LET days == Val(daily_days)
            considered == Slice(Hourly, days * 24)
        IN  Val(daily_result)
                = GetDailyForecast(WithForecast(SelectSeq(considered, Parseable)),
                                   days, hash_order)

\* C12 witness: a skipped entry stands between two entries of one date,
\* and the one summary adds up the precipitation of these two only.
C12_Witness ==
    /\ daily_result # None
    /\ Len(Hourly) = 3
    /\ Parseable(Hourly[1]) /\ ~Parseable(Hourly[2]) /\ Parseable(Hourly[3])
    /\ DateOf(Hourly[1]) = DateOf(Hourly[3])
    /\ Len(Val(daily_result)) = 1
    /\ Val(daily_result)[1].precipitation = 2

(***************************************************************************)
(* Properties of a day's summary (checked under SpecDailyFields).          *)
(***************************************************************************)
\* The temperatures the entries of a group report.
TemperaturesOf(run) ==
    {Val(run[i].temperature) : i \in {j \in DOMAIN run : run[j].temperature # None}}

\* C13: temperature_min and temperature_max of a day's summary are the
\* least and the greatest temperature among the entries of the group that
\* report one (0 is a temperature); both are None when no entry reports
\* one; min <= max; for a group of one entry both are its temperature.
C13_TemperatureMinMax ==
    daily_result # None =>
        LET runs == ConsideredRuns(Val(daily_days))
            res == Val(daily_result)
        IN  \A k \in 1..Len(res) :
                LET T == TemperaturesOf(runs[k])
                    lo == res[k].temperature_min
                    hi == res[k].temperature_max
                IN  /\ T = {} => (lo = None /\ hi = None)
                    /\ T # {} =>
                          /\ lo # None /\ Val(lo) \in T /\ \A t \in T : Val(lo) <= t
                          /\ hi # None /\ Val(hi) \in T /\ \A t \in T : t <= Val(hi)
                          /\ Val(lo) <= Val(hi)
                    /\ Len(runs[k]) = 1 =>
                          (lo = runs[k][1].temperature /\ hi = runs[k][1].temperature)

\* C13 witness: a group whose entries report no temperature, 0 and -3; the
\* summary has min -3 and max 0.
C13_Witness ==
    /\ daily_result # None
    /\ Len(Val(daily_result)) = 1
    /\ Len(Hourly) = 3
    /\ \E i \in 1..3 : Hourly[i].temperature = None
    /\ TemperaturesOf(Hourly) = {0, -3}
    /\ Val(daily_result)[1].temperature_min = Some(-3)
    /\ Val(daily_result)[1].temperature_max = Some(0)

\* The conditions of the entries of a group between 6 and 18 o'clock that
\* have a non-empty condition, one per such entry.
DaytimeEntries(run) ==
    {i \in DOMAIN run :
        /\ Val(ParseTimestamp(run[i].timestamp)).hour \in 6..18
        /\ run[i].condition # None
        /\ Val(run[i].condition) # ""}

\* How many daytime entries of the group have condition c.
Frequency(run, c) == Cardinality({i \in DaytimeEntries(run) : Val(run[i].condition) = c})

\* C14: when a group has an entry between 6 and 18 o'clock (both included)
\* with a non-empty condition, the summary's condition is one of the most
\* frequent conditions of these entries and its icon is the image the
\* table gives for it; otherwise condition and icon are those of the
\* group's first entry, as they are.
C14_ConditionOfDay ==
    daily_result # None =>
        LET runs == ConsideredRuns(Val(daily_days))
            res == Val(daily_result)
        IN  \A k \in 1..Len(res) :
                LET run == runs[k]
                IN  IF DaytimeEntries(run) # {}
                    THEN /\ res[k].condition # None
                         /\ Frequency(run, Val(res[k].condition)) >= 1
                         /\ \A i \in DaytimeEntries(run) :
                                Frequency(run, Val(run[i].condition))
                                    <= Frequency(run, Val(res[k].condition))
                         /\ res[k].icon = Some(ConditionToIcon(Val(res[k].condition)))
                    ELSE /\ res[k].condition = run[1].condition
                         /\ res[k].icon = run[1].icon

\* C14 witness: the group's first entry is at 5 o'clock with condition
\* "dry"; of the daytime entries one is at 6 and one at 18 o'clock, both
\* "mist"; the summary says "mist" with the table's image.
C14_Witness ==
    /\ daily_result # None
    /\ Len(Val(daily_result)) = 1
    /\ Len(Hourly) = 3
    /\ Val(ParseTimestamp(Hourly[1].timestamp)).hour = 5
    /\ Hourly[1].condition = Some("dry")
    /\ Val(ParseTimestamp(Hourly[2].timestamp)).hour = 6
    /\ Val(ParseTimestamp(Hourly[3].timestamp)).hour = 18
    /\ Val(daily_result)[1].condition = Some("mist")
    /\ Val(daily_result)[1].icon = Some("clear-day")

(***************************************************************************)
(* Properties of the reads of the current weather (checked under           *)
(* SpecEntity).                                                            *)
(***************************************************************************)
\* The last read was a call of fn.
Read(fn) == observed # None /\ Val(observed).fn = fn

\* How the last read ended.
Out == Val(observed).out

\* The current response of the snapshot is an object.
CurrentIsObject == IsObject(Val(data).current)

\* Its `weather` value (None when the key is missing or null).
Weather == Val(data).current.weather

\* The `weather` value is the record r as an object.
ObjectForm(r) == Weather = Some(JDict(r))

\* The `weather` value is an array of the one record r.
ArrayForm(r) == Weather = Some(JList(<<r>>))

\* The `weather` value is missing, an empty array, an empty object, or
\* neither an array nor an object.
NoRecordForm ==
    \/ Weather = None
    \/ Weather = Some(JList(<<>>))
    \/ Weather = Some(JDict(EmptyDict))
    \/ Val(Weather).type \notin {"list", "dict"}

\* C15 as stated: get_current_weather returns one record or None: the
\* object for a non-empty object, item 0 (the same record as in the object
\* form) for an array of one record, and None for an empty array, an empty
\* object or another shape.
C15_AccessorReturnsOneRecord ==
    (Read("get_current_weather") /\ CurrentIsObject) =>
        /\ ~Out.raised
        /\ \A r \in WeatherRecords :
              (ObjectForm(r) \/ ArrayForm(r)) => Out.value = Some(JDict(r))
        /\ NoRecordForm => Out.value = None

\* C15 amended: get_current_weather returns the `weather` value of the
\* current payload as it is: the object for an object, the whole array
\* for an array, an empty array, an empty object or a value of another
\* type unchanged, and None only when the key is missing or null.  The
\* record is picked by the caller: the weather entity reads a field from
\* the object or from item 0 of the returned array.
C15_AccessorReturnsWeatherAsIs ==
    (Read("get_current_weather") /\ CurrentIsObject) =>
        /\ ~Out.raised
        /\ Out.value = None <=> Weather = None
        /\ \A r \in WeatherRecords :
              /\ ObjectForm(r) => Out.value = Some(JDict(r))
              /\ ArrayForm(r) => Out.value = Some(JList(<<r>>))
              /\ (ObjectForm(r) \/ ArrayForm(r)) =>
                    \A key \in DOMAIN r : EntityField(Out.value, key) = r[key]
        /\ Weather = Some(JList(<<>>)) => Out.value = Some(JList(<<>>))
        /\ Weather = Some(JDict(EmptyDict)) => Out.value = Some(JDict(EmptyDict))
        /\ Weather = Some(JString("n/a")) => Out.value = Some(JString("n/a"))
        /\ NoRecordForm => \A key \in SensorKeys : EntityField(Out.value, key) = None

\* C15 witness: `weather` is an array of one record and the call returned
\* the array.
C15_Witness ==
    /\ Read("get_current_weather")
    /\ CurrentIsObject
    /\ \E r \in WeatherRecords : ArrayForm(r)
    /\ Out.value # None
    /\ Val(Out.value).type = "list"
    /\ Len(Val(Out.value).items) = 1

\* The last read was the value of a sensor or a number of the weather entity.
ReadValue ==
    Read("sensor.native_value") \/ Read("weather.native_temperature")
        \/ Read("weather.visibility")

\* The value of the record's field, as a read reports it when it passes it
\* on unchanged; the visibility of the weather entity is compared as a
\* quotient.
Unchanged(value) ==
    IF Read("weather.visibility")
    THEN IF value = None THEN None ELSE Some(Quotient(Val(value), 1))
    ELSE value

\* The value as the reads report it: the visibility of the weather entity
\* in kilometres, everything else unchanged.
Reported(value) ==
    IF Read("weather.visibility")
    THEN IF value = None THEN None ELSE Some(Quotient(Val(value), 1000))
    ELSE value

\* The `weather` value is an array whose first item is a string.
ArrayOfString == Weather = Some(JList(<<JString("n/a")>>))

\* C16 as stated: for every record r and key k a sensor or the weather
\* entity reports r[k], unchanged, for {"weather": r} as for
\* {"weather": [r]}, and None when `weather` is an empty array, an empty
\* object, missing or of another shape.
C16_SameValueUnchanged ==
    (ReadValue /\ CurrentIsObject /\ ~ArrayOfString) =>
        /\ ~Out.raised
        /\ \A r \in WeatherRecords :
              (ObjectForm(r) \/ ArrayForm(r)) =>
                  Out.value = Unchanged(r[Val(observed).key])
        /\ NoRecordForm => Out.value = None

\* C16 amended: a sensor with key k reports r[k], unchanged, and the
\* weather entity reports r["temperature"] unchanged and r["visibility"]
\* divided by 1000 (metres to kilometres), for {"weather": r} as for
\* {"weather": [r]}; all report None when `weather` is an empty array, an
\* empty object, missing, or neither an array nor an object.  For an array
\* whose first item is a non-empty string the weather entity reports None
\* and the sensor read raises AttributeError.
C16_SameValueInBothForms ==
    (ReadValue /\ CurrentIsObject) =>
        /\ ~ArrayOfString =>
              /\ ~Out.raised
              /\ \A r \in WeatherRecords :
                    (ObjectForm(r) \/ ArrayForm(r)) =>
                        Out.value = Reported(r[Val(observed).key])
              /\ NoRecordForm => Out.value = None
        /\ ArrayOfString =>
              IF Read("sensor.native_value")
              THEN Out.raised /\ Out.exc = "AttributeError"
              ELSE ~Out.raised /\ Out.value = None

\* C16 witness: `weather` is an array of one record with a visibility of
\* 1500 and the weather entity reports 3/2.
C16_Witness ==
    /\ Read("weather.visibility")
    /\ CurrentIsObject
    /\ \E r \in WeatherRecords : ArrayForm(r) /\ r.visibility = Some(1500)
    /\ Out.value = Some([num |-> 3, den |-> 2])

\* C17: on every committed payload, whatever JSON values its parts are,
\* get_current_weather, get_hourly_forecast, get_daily_forecast and the
\* value and availability functions of the sensors return and never raise.
C17_ReadsNeverRaise ==
    (\/ Read("get_current_weather")
     \/ Read("get_hourly_forecast")
     \/ Read("get_daily_forecast")
     \/ Read("sensor.native_value")
     \/ Read("sensor.available")) => ~Out.raised

\* C18: the condition of the weather entity is the icon table's image of
\* the record's icon whenever the icon is not empty ("sunny" for an icon
\* the table does not hold), whatever the record's condition is; the
\* condition table ("sunny" for a condition it does not hold) is used only
\* without an icon; without both, or without a record, it is "sunny".
C18_IconBeforeCondition ==
    (Read("weather.condition") /\ CurrentIsObject) =>
        /\ ~Out.raised
        /\ \A r \in WeatherRecords :
              (ObjectForm(r) \/ ArrayForm(r)) =>
                  /\ Truthy(r.icon) => Out.value = IconMap(Val(r.icon))
                  /\ (r.icon = Some("rain") /\ r.condition = Some("dry")) =>
                        Out.value = "rainy"
                  /\ r.icon = Some("tornado") => Out.value = "sunny"
                  /\ (~Truthy(r.icon) /\ Truthy(r.condition)) =>
                        Out.value = ConditionMap(Val(r.condition))
                  /\ (~Truthy(r.icon) /\ r.condition = Some("rain")) =>
                        Out.value = "rainy"
                  /\ (~Truthy(r.icon) /\ r.condition = Some("smoke")) =>
                        Out.value = "sunny"
                  /\ (~Truthy(r.icon) /\ ~Truthy(r.condition)) => Out.value = "sunny"
        /\ NoRecordForm => Out.value = "sunny"

\* C18 witness: the record has the icon "rain" and the condition "dry",
\* and the condition of the entity is "rainy".
C18_Witness ==
    /\ Read("weather.condition")
    /\ CurrentIsObject
    /\ \E r \in WeatherRecords :
          ObjectForm(r) /\ r.icon = Some("rain") /\ r.condition = Some("dry")
    /\ Out.value = "rainy"

(***************************************************************************)
(* Properties of the update interval (checked under SpecConfig).           *)
(***************************************************************************)
\* The scan interval the user configured: the one in the options, else the
\* one in the data.
Configured == IF entry.options # None THEN entry.options ELSE entry.data

\* C19: when the scan interval the user configured (in the options, else
\* in the data) is below 60 seconds, 0 and negative values included, the
\* coordinator is made with an update interval of exactly 60 seconds.
C19_BelowMinimumGivesMinimum ==
    (update_interval # None /\ Configured # None /\ Val(Configured) < 60) =>
        Val(update_interval) = 60

\* C20: whatever integers the options and the data hold as scan interval,
\* or if one or both hold none, the update interval the coordinator is
\* made with is at least 60 seconds.
C20_IntervalAtLeastMinimum ==
    update_interval # None => Val(update_interval) >= 60

\* C20 witness: the options hold a negative scan interval, the data one
\* below 60, and the coordinator was made with 60 seconds.
C20_Witness ==
    /\ entry.options = Some(-5)
    /\ entry.data = Some(30)
    /\ update_interval = Some(60)
    /\ setup_pc = "first_refresh"

(***************************************************************************)
(* Properties of set-up and unload (checked under SpecLifecycle).          *)
(***************************************************************************)
\* A step of async_unload_entry whose platform unload succeeded.
UnloadSucceeds == setup_pc = "done" /\ setup_pc' = "unloaded"

\* A step of async_unload_entry whose platform unload failed (seen when the
\* call before it did not return false as well).
UnloadFails == setup_pc = "done" /\ setup_pc' = "done" /\ unload_ok' # unload_ok

\* C23: after an async_unload_entry whose platform unload succeeded,
\* hass.data[DOMAIN] does not hold the entry's id any more and the
\* unsubscribe callback that set-up registered has been called exactly
\* once; when the platform unload fails, the stored entry data and the
\* listener stay as they are and async_unload_entry returns false.  This
\* holds for every sequence of set-ups and unloads.
C23_UnloadDiscardsEntry ==
    /\ [][UnloadSucceeds =>
              /\ unload_ok' = Some(TRUE)
              /\ hass_data # None /\ hass_data' = None
              /\ unsub_calls = 0 /\ unsub_calls' = 1
              /\ update_listener /\ ~update_listener']_vars
    /\ [][UnloadFails =>
              /\ unload_ok' = Some(FALSE)
              /\ hass_data # None /\ hass_data' = hass_data
              /\ update_listener /\ update_listener' = update_listener
              /\ unsub_calls' = unsub_calls]_vars
    /\ [](setup_pc = "unloaded" =>
              (hass_data = None /\ unsub_calls = 1 /\ ~update_listener
                  /\ unload_ok = Some(TRUE)))
    /\ []((setup_pc = "done" /\ unload_ok = Some(FALSE)) =>
              (hass_data # None /\ update_listener /\ unsub_calls = 0))

\* C23 witness: the entry was set up and then unloaded with success; the
\* entry's data is gone and the callback was called once.
C23_Witness ==
    /\ setup_pc = "unloaded"
    /\ unload_ok = Some(TRUE)
    /\ hass_data = None
    /\ unsub_calls = 1
    /\ ~update_listener
    /\ data # None

\* C10: get_daily_forecast returns the same summaries for the same hourly
\* sequence in every run of the program, that is, whatever order the
\* process iterates a set of strings in.
C10_SameResultInEveryRun ==
    daily_result # None =>
        \A order \in HashOrders :
            GetDailyForecast(data, Val(daily_days), order) = Val(daily_result)

====
